---- MODULE Spec2Model ----
(***************************************************************************)
(* Model of wordsearch_generator.py: the placement primitives              *)
(* insert_word_horizontally / insert_word_vertically, the two candidate    *)
(* generators iterate_word_spaces / iterate_word_spaces_randomly and the   *)
(* two backtracking solvers insert_words / insert_words_randomly.          *)
(*                                                                         *)
(* Grids are Python lists of row lists.  They are objects: the primitives  *)
(* write into the object they are given and deepcopy makes a new object.   *)
(* The model therefore keeps a heap (reference -> grid value); a Python    *)
(* variable holding a grid is a reference into the heap.                   *)
(* Coordinates are 0-based as in the source; grid[y][x] of the source is   *)
(* grid[y + 1][x + 1] here.                                                *)
(***************************************************************************)
EXTENDS Integers, Sequences, FiniteSets, TLC

\* ------------------------------------------------------------------ bounds
MaxW == 2            \* widest input grid of the generic inputs
MaxH == 2            \* tallest input grid of the generic inputs
MaxPreset == 2       \* most pre-set cells of a grid handed to a primitive or a generator
MaxSolvePreset == 1  \* most pre-set cells of a grid handed to a solver
MaxWords == 2        \* longest word list handed to a solver
MaxShuffle == 4      \* longest list of spaces that is shuffled

\* The size of the grid of the tests' cases (each test builds a 4 x 4 grid).
TestSize == 4

\* -------------------------------------------------------------- grid model
None == "None"
Chars == {"a", "b"}
Cell == Chars \cup {None}

\* Words the generic inputs draw from.  <<"a","b","a">> is longer than both
\* dimensions of a MaxW x MaxH grid.
Dictionary == {<<"a">>, <<"b">>, <<"a", "b">>, <<"b", "a">>, <<"a", "b", "a">>}
\* Words the word lists of the solvers draw from.
SolverWords == {<<"a">>, <<"a", "b">>, <<"b", "a">>}

cat == <<"c", "a", "t">>
cup == <<"c", "u", "p">>

\* create_empty_grid(width, height): [[None] * width for _ in range(height)]
create_empty_grid(width, height) == [r \in 1..height |-> [c \in 1..width |-> None]]

\* height = len(grid)
Height(grid) == Len(grid)
\* width = len(grid[0]) if height > 0 else 0
Width(grid) == IF Height(grid) > 0 THEN Len(grid[1]) ELSE 0

\* range(n): the integers 0 .. n-1, empty when n <= 0.
Range(n) == 0..(n - 1)
RangeLen(n) == IF n > 0 THEN n ELSE 0

\* ---------------------------------------------------- placement primitives
\* Single-pass variant: writes while it checks, so a conflict met after
\* some cells were written leaves those cells written.
InsertWordHorizontallyPartial(grid, word, x, y) ==
    LET bad == {i \in Range(Len(word)) :
                   grid[y + 1][x + i + 1] # None /\ grid[y + 1][x + i + 1] # word[i + 1]}
        stop == IF bad = {} THEN Len(word)
                ELSE CHOOSE i \in bad : \A j \in bad : i <= j
        row == grid[y + 1]
    IN  [ret  |-> bad = {},
         grid |-> [grid EXCEPT ![y + 1] =
                     [c \in 1..Len(row) |->
                        IF c - 1 >= x /\ c - 1 < x + stop THEN word[c - x] ELSE row[c]]]]

\* Variant along a row whose check loop is over range(len(word) - 1): the
\* last character is written without being compared with the cell.
InsertWordHorizontallyUncheckedLast(grid, word, x, y) ==
    LET fits == \A i \in Range(Len(word) - 1) :
                   LET grid_char == grid[y + 1][x + i + 1]
                   IN  ~(grid_char # None /\ grid_char # word[i + 1])
    IN  IF ~fits
        THEN [ret |-> FALSE, grid |-> grid]
        ELSE [ret |-> TRUE,
              grid |-> [grid EXCEPT ![y + 1] =
                          [c \in 1..Len(grid[y + 1]) |->
                              IF c - 1 >= x /\ c - 1 < x + Len(word)
                              THEN word[c - x]
                              ELSE grid[y + 1][c]]]]

\* insert_word_horizontally(grid, word, x, y): the first loop returns False at
\* the first cell that holds a character other than the word's; otherwise the
\* second loop writes word[i] to grid[y][x + i].  ret is the return value,
\* grid the contents of the grid object after the call.
insert_word_horizontally(grid, word, x, y) ==
    LET fits == \A i \in Range(Len(word)) :
                   LET grid_char == grid[y + 1][x + i + 1]
                   IN  ~(grid_char # None /\ grid_char # word[i + 1])
        row == grid[y + 1]
    IN  IF ~fits
        THEN [ret |-> FALSE, grid |-> grid]
        ELSE [ret |-> TRUE,
              grid |-> [grid EXCEPT ![y + 1] =
                          [c \in 1..Len(row) |->
                             IF c - 1 >= x /\ c - 1 < x + Len(word)
                             THEN word[c - x] ELSE row[c]]]]

\* Variant that treats every occupied cell as a conflict (no crossing at a
\* common letter).
InsertWordVerticallyNoOverlap(grid, word, x, y) ==
    LET fits == \A i \in Range(Len(word)) : grid[y + i + 1][x + 1] = None
    IN  IF ~fits
        THEN [ret |-> FALSE, grid |-> grid]
        ELSE [ret |-> TRUE,
              grid |-> [r \in 1..Len(grid) |->
                          IF r - 1 >= y /\ r - 1 < y + Len(word)
                          THEN [grid[r] EXCEPT ![x + 1] = word[r - y]]
                          ELSE grid[r]]]

\* Single-pass variant along a column: writes while it checks.
InsertWordVerticallyPartial(grid, word, x, y) ==
    LET bad == {i \in Range(Len(word)) :
                   grid[y + i + 1][x + 1] # None /\ grid[y + i + 1][x + 1] # word[i + 1]}
        stop == IF bad = {} THEN Len(word)
                ELSE CHOOSE i \in bad : \A j \in bad : i <= j
    IN  [ret  |-> bad = {},
         grid |-> [r \in 1..Len(grid) |->
                     IF r - 1 >= y /\ r - 1 < y + stop
                     THEN [grid[r] EXCEPT ![x + 1] = word[r - y]]
                     ELSE grid[r]]]

\* insert_word_vertically(grid, word, x, y): as above along a column.
insert_word_vertically(grid, word, x, y) ==
    LET fits == \A i \in Range(Len(word)) :
                   LET grid_char == grid[y + i + 1][x + 1]
                   IN  ~(grid_char # None /\ grid_char # word[i + 1])
    IN  IF ~fits
        THEN [ret |-> FALSE, grid |-> grid]
        ELSE [ret |-> TRUE,
              grid |-> [r \in 1..Len(grid) |->
                          IF r - 1 >= y /\ r - 1 < y + Len(word)
                          THEN [grid[r] EXCEPT ![x + 1] = word[r - y]]
                          ELSE grid[r]]]

\* The call a generator makes for one space (x, y, horizontal).
InsertAt(grid, word, space) ==
    IF space[3]
    THEN insert_word_horizontally(grid, word, space[1], space[2])
    ELSE insert_word_vertically(grid, word, space[1], space[2])

\* ------------------------------------------------------------------ spaces
\* Variant whose outer loop is over range(width): it ignores the word length.
HorizontalSpacesAnyX(width, height, word) ==
    [k \in 1..(RangeLen(width) * RangeLen(height)) |->
        <<(k - 1) \div height, (k - 1) % height, TRUE>>]

\* Variant that loops y outer, x inner.
HorizontalSpacesYMajor(width, height, word) ==
    LET nx == RangeLen(width - Len(word) + 1)
    IN  [k \in 1..(nx * RangeLen(height)) |->
            <<(k - 1) % nx, (k - 1) \div nx, TRUE>>]

\* for x in range(width - len(word) + 1): for y in range(height): (x, y, True)
HorizontalSpaces(width, height, word) ==
    [k \in 1..(RangeLen(width - Len(word) + 1) * RangeLen(height)) |->
        <<(k - 1) \div height, (k - 1) % height, TRUE>>]

\* Variant whose outer loop is range(height - len(word)): the last row a
\* vertical word can start in is left out.
VerticalSpacesShort(width, height, word) ==
    [k \in 1..(RangeLen(height - Len(word)) * RangeLen(width)) |->
        <<(k - 1) % width, (k - 1) \div width, FALSE>>]

\* for y in range(height - len(word) + 1): for x in range(width): (x, y, False)
VerticalSpaces(width, height, word) ==
    [k \in 1..(RangeLen(height - Len(word) + 1) * RangeLen(width)) |->
        <<(k - 1) % width, (k - 1) \div width, FALSE>>]

\* The spaces a generator over (grid, word) goes through, in the order of
\* the loops of iterate_word_spaces, which is also the order in which
\* iterate_word_spaces_randomly appends them to its list before the shuffle.
Spaces(grid, word) ==
    HorizontalSpaces(Width(grid), Height(grid), word)
        \o VerticalSpaces(Width(grid), Height(grid), word)

\* Variant of the list whose vertical part leaves out the last row a
\* vertical word can start in.
SpacesListShort(grid, word) ==
    HorizontalSpaces(Width(grid), Height(grid), word)
        \o VerticalSpacesShort(Width(grid), Height(grid), word)

\* The list iterate_word_spaces_randomly builds before it shuffles it:
\* spaces.append((x, y, True)) in the first pair of loops, then
\* spaces.append((x, y, False)) in the second.
SpacesList(grid, word) ==
    LET height == Height(grid)
        width == Width(grid)
    IN  [k \in 1..(RangeLen(width - Len(word) + 1) * RangeLen(height)) |->
            <<(k - 1) \div height, (k - 1) % height, TRUE>>]
        \o [k \in 1..(RangeLen(height - Len(word) + 1) * RangeLen(width)) |->
            <<(k - 1) % width, (k - 1) \div width, FALSE>>]

\* -------------------------------------------------------------------- heap
\* The least reference not in use.
NewRef(h) == CHOOSE n \in 1..(Cardinality(DOMAIN h) + 1) :
                 n \notin DOMAIN h /\ \A m \in 1..(n - 1) : m \in DOMAIN h

\* deepcopy(grid): a new object with the contents of grid.
deepcopy(h, ref) ==
    LET n == NewRef(h) IN [heap |-> (n :> h[ref]) @@ h, ref |-> n]

\* Objects no variable refers to any more are freed (reference counting).
Collect(h, roots) == [r \in (DOMAIN h) \cap roots |-> h[r]]

\* ------------------------------------------------------------------ inputs
\* Number of cells of a grid that are not None.
Preset(grid) ==
    Cardinality({rc \in (1..Height(grid)) \X (1..Width(grid)) : grid[rc[1]][rc[2]] # None})

\* Shapes a list of row lists can have: with no row there is no width.
Shapes == {s \in (0..MaxW) \X (0..MaxH) : s[2] = 0 => s[1] = 0}

\* Rectangular grids of the shapes above with at most n pre-set cells.
InputGrids(n) ==
    UNION {{g \in [1..s[2] -> [1..s[1] -> Cell]] : Preset(g) <= n} : s \in Shapes}

PrimitiveGrids == InputGrids(MaxPreset)
SolverGrids == InputGrids(MaxSolvePreset)
WordLists == UNION {[1..n -> SolverWords] : n \in 0..MaxWords}

\* The solver inputs: the generic ones and the 4 x 4 case with "cat" and "cup".
SolverInputs ==
    {[grid |-> g, words |-> ws] : g \in SolverGrids, ws \in WordLists}
\* Those whose generators shuffle at most MaxShuffle spaces.
RandomSolverInputs ==
    {in \in SolverInputs :
        \A i \in 1..Len(in.words) : Len(SpacesList(in.grid, in.words[i])) <= MaxShuffle}
TestInputs ==
    {[grid |-> create_empty_grid(TestSize, TestSize), words |-> <<cat, cup>>]}

\* ------------------------------------------------------------------- state
VARIABLES
    pc,       \* "idle", "ordered", "randomly", "solve" or "done"
    call,     \* the call under way: its function and its arguments as passed
    heap,     \* reference -> grid contents; reference 1 is the caller's grid
    stack,    \* the suspended generators, innermost last
    yielded,  \* what list(...) has collected from each generator
    result,   \* the value the call returned
    last,     \* the latest call of a placement primitive
    pair      \* two placements made on one grid in both orders, and the outcomes

vars == <<pc, call, heap, stack, yielded, result, last, pair>>

NoCall == [fn |-> "none", grid0 |-> <<>>, words |-> <<>>, x |-> 0, y |-> 0]
NoLast == [fn |-> "none", pre |-> <<>>, word |-> <<>>, x |-> 0, y |-> 0,
           ret |-> FALSE, post |-> <<>>]
NoPair == [first |-> <<>>, second |-> <<>>, forward |-> <<>>, backward |-> <<>>]
Pending == [tag |-> "pending", ref |-> 0, ret |-> FALSE]
\* return None
ReturnNone == [tag |-> "None", ref |-> 0, ret |-> FALSE]
\* return <a grid object>
ReturnGrid(ref) == [tag |-> "grid", ref |-> ref, ret |-> FALSE]
\* list(<generator>) has returned: "list" after the ordered generator,
\* "lists" after the randomized one as well.
Listed(tag) == [tag |-> tag, ref |-> 0, ret |-> FALSE]
\* return True / return False
ReturnBool(b) == [tag |-> "bool", ref |-> 0, ret |-> b]

Init ==
    /\ pc = "idle"
    /\ call = NoCall
    /\ heap = <<>>
    /\ stack = <<>>
    /\ yielded = [ordered |-> <<>>, randomly |-> <<>>]
    /\ result = Pending
    /\ last = NoLast
    /\ pair = NoPair

\* The references some variable of the program still holds.
Roots(stk, yld, res) ==
    {1} \cup {stk[i].base : i \in 1..Len(stk)} \cup {stk[i].temp : i \in 1..Len(stk)}
        \cup {yld.ordered[i].ref : i \in 1..Len(yld.ordered)}
        \cup {yld.randomly[i].ref : i \in 1..Len(yld.randomly)}
        \cup (IF res.tag = "grid" THEN {res.ref} ELSE {})

\* -------------------------------------------------------------- generators
RemoveAt(seq, k) == [i \in 1..(Len(seq) - 1) |-> IF i < k THEN seq[i] ELSE seq[i + 1]]

\* A generator over (grid, word) at its first statement after the prologue
\* (height, width, temp_grid = deepcopy(grid)).  rest is the words[1:] of the
\* solver that drives it; base0 remembers the contents of grid at that time.
NewGenerator(h, base, word, rest, randomly) ==
    LET d == deepcopy(h, base)
    IN  [heap  |-> d.heap,
         frame |-> [base |-> base, base0 |-> h[base], word |-> word, rest |-> rest,
                    spaces |-> IF randomly THEN SpacesList(h[base], word)
                               ELSE Spaces(h[base], word),
                    temp |-> d.ref,
                    suspended |-> FALSE, randomly |-> randomly]]

\* The spaces the generator may take next: the first one in loop order, or,
\* after shuffle(spaces), any of those left (the shuffle is drawn as it is
\* consumed).
Picks(f) ==
    IF f.spaces = <<>> THEN {} ELSE IF f.randomly THEN 1..Len(f.spaces) ELSE {1}

\* Variant that goes on with the grid it has yielded.
ResumeSameGrid(h, f) == [heap |-> h, ref |-> f.temp]

\* A generator resumed after a yield rebinds temp_grid to deepcopy(grid);
\* one whose last placement did not fit goes on with the same temp_grid.
Resume(h, f) ==
    IF f.suspended THEN deepcopy(h, f.base) ELSE [heap |-> h, ref |-> f.temp]

\* One turn of a generator's loop on space k: after Resume the primitive is
\* called on temp_grid; the generator is suspended at the yield iff the word
\* fitted.
Attempt(h, f, k) ==
    LET r0 == Resume(h, f)
        space == f.spaces[k]
        pre == r0.heap[r0.ref]
        r == InsertAt(pre, f.word, space)
    IN  [heap  |-> [r0.heap EXCEPT ![r0.ref] = r.grid],
         frame |-> [f EXCEPT !.spaces = RemoveAt(f.spaces, k), !.temp = r0.ref,
                             !.suspended = r.ret],
         fits  |-> r.ret,
         space |-> space,
         last  |-> [fn |-> IF space[3] THEN "insert_word_horizontally"
                           ELSE "insert_word_vertically",
                    pre |-> pre, word |-> f.word, x |-> space[1], y |-> space[2],
                    ret |-> r.ret, post |-> r.grid]]

Top == stack[Len(stack)]
SetTop(stk, f) == [stk EXCEPT ![Len(stk)] = f]
Pop(stk) == SubSeq(stk, 1, Len(stk) - 1)

\* ------------------------------------------------- calls of the primitives
\* A direct call insert_word_horizontally(grid, word, x, y) with the
\* footprint inside the grid (the primitive does not check the bounds).
CallInsertWordHorizontally ==
    /\ pc = "idle"
    /\ \E grid \in PrimitiveGrids, word \in Dictionary :
         \E x \in Range(Width(grid) - Len(word) + 1), y \in Range(Height(grid)) :
            LET r == insert_word_horizontally(grid, word, x, y)
            IN  /\ call' = [fn |-> "insert_word_horizontally", grid0 |-> grid,
                            words |-> <<word>>, x |-> x, y |-> y]
                /\ heap' = (1 :> r.grid)
                /\ result' = ReturnBool(r.ret)
                /\ last' = [fn |-> "insert_word_horizontally", pre |-> grid, word |-> word,
                            x |-> x, y |-> y, ret |-> r.ret, post |-> r.grid]
    /\ pc' = "done"
    /\ UNCHANGED <<stack, yielded, pair>>

\* A direct call insert_word_vertically(grid, word, x, y), likewise.
CallInsertWordVertically ==
    /\ pc = "idle"
    /\ \E grid \in PrimitiveGrids, word \in Dictionary :
         \E x \in Range(Width(grid)), y \in Range(Height(grid) - Len(word) + 1) :
            LET r == insert_word_vertically(grid, word, x, y)
            IN  /\ call' = [fn |-> "insert_word_vertically", grid0 |-> grid,
                            words |-> <<word>>, x |-> x, y |-> y]
                /\ heap' = (1 :> r.grid)
                /\ result' = ReturnBool(r.ret)
                /\ last' = [fn |-> "insert_word_vertically", pre |-> grid, word |-> word,
                            x |-> x, y |-> y, ret |-> r.ret, post |-> r.grid]
    /\ pc' = "done"
    /\ UNCHANGED <<stack, yielded, pair>>

\* ------------------------------------------------ consuming the generators
\* grids = iterate_word_spaces(grid, word) followed by
\* list(iterate_word_spaces_randomly(grid, word)) on the same grid, as
\* test_iterate_word_spaces_randomly does: the ordered generator is consumed
\* first, then the randomized one.
CallIterateWordSpaces ==
    /\ pc = "idle"
    /\ \E grid \in PrimitiveGrids, word \in Dictionary :
         LET g == NewGenerator((1 :> grid), 1, word, <<>>, FALSE)
         IN  /\ call' = [fn |-> "iterate_word_spaces", grid0 |-> grid,
                         words |-> <<word>>, x |-> 0, y |-> 0]
             /\ heap' = g.heap
             /\ stack' = <<g.frame>>
    /\ pc' = "ordered"
    /\ UNCHANGED <<yielded, result, last, pair>>

\* next() on the generator under consumption: one turn of its loop; a grid
\* that is yielded is appended to the consumer's list.
GeneratorNext(which) ==
    /\ stack # <<>>
    /\ \E k \in Picks(Top) :
         \E a \in {Attempt(heap, Top, k)} :
             /\ stack' = <<a.frame>>
             /\ yielded' = IF a.fits
                           THEN [yielded EXCEPT ![which] =
                                   Append(@, [ref |-> a.frame.temp,
                                              val |-> a.heap[a.frame.temp],
                                              space |-> a.space])]
                           ELSE yielded
             /\ last' = a.last
             /\ heap' = Collect(a.heap, Roots(stack', yielded', result))
    /\ UNCHANGED <<pc, call, result, pair>>

IterateWordSpacesNext ==
    /\ pc = "ordered"
    /\ GeneratorNext("ordered")

\* The ordered generator is exhausted and the consumer has its list.
IterateWordSpacesEnd ==
    /\ pc = "ordered"
    /\ Top.spaces = <<>>
    /\ stack' = <<>>
    /\ heap' = Collect(heap, Roots(<<>>, yielded, result))
    /\ pc' = "done"
    /\ result' = Listed("list")
    /\ UNCHANGED <<call, yielded, last, pair>>

\* The ordered generator is exhausted; the consumer goes on to
\* list(iterate_word_spaces_randomly(grid, word)) on the same grid.
CallIterateWordSpacesRandomly ==
    /\ pc = "ordered"
    /\ Top.spaces = <<>>
    /\ Len(SpacesList(heap[1], call.words[1])) <= MaxShuffle
    /\ LET g == NewGenerator(Collect(heap, Roots(<<>>, yielded, result)), 1,
                             call.words[1], <<>>, TRUE)
       IN  /\ heap' = g.heap
           /\ stack' = <<g.frame>>
    /\ pc' = "randomly"
    /\ UNCHANGED <<call, yielded, result, last, pair>>

IterateWordSpacesRandomlyNext ==
    /\ pc = "randomly"
    /\ GeneratorNext("randomly")

\* The randomized generator is exhausted.
IterateWordSpacesRandomlyEnd ==
    /\ pc = "randomly"
    /\ Top.spaces = <<>>
    /\ stack' = <<>>
    /\ heap' = Collect(heap, Roots(<<>>, yielded, result))
    /\ pc' = "done"
    /\ result' = Listed("lists")
    /\ UNCHANGED <<call, yielded, last, pair>>

\* ----------------------------------------------------------------- solvers
\* (In the actions, \E v \in {e} : ... binds v to the value of e.)
\* Variant whose base case returns a copy of the grid.
InsertWordsEnterCopy(h, ref, words, randomly) ==
    IF Len(words) = 0
    THEN LET d == deepcopy(h, ref)
         IN  [returns |-> TRUE, result |-> ReturnGrid(d.ref), heap |-> d.heap,
              frame |-> <<>>]
    ELSE LET g == NewGenerator(h, ref, words[1], Tail(words), randomly)
         IN  [returns |-> FALSE, result |-> Pending, heap |-> g.heap, frame |-> g.frame]

\* The entry of insert_words(grid, words) / insert_words_randomly(grid, words):
\* with no word left the call returns grid; otherwise it starts the generator
\* over (grid, words[0]) that its for loop consumes.
InsertWordsEnter(h, ref, words, randomly) ==
    IF Len(words) = 0
    THEN [returns |-> TRUE, result |-> ReturnGrid(ref), heap |-> h, frame |-> <<>>]
    ELSE LET g == NewGenerator(h, ref, words[1], Tail(words), randomly)
         IN  [returns |-> FALSE, result |-> Pending, heap |-> g.heap, frame |-> g.frame]

\* The caller's call of a solver on its grid (reference 1).
CallSolver(fn, inputs, randomly) ==
    /\ pc = "idle"
    /\ \E in \in inputs :
         \E e \in {InsertWordsEnter((1 :> in.grid), 1, in.words, randomly)} :
             /\ call' = [fn |-> fn, grid0 |-> in.grid, words |-> in.words,
                         x |-> 0, y |-> 0]
             /\ heap' = e.heap
             /\ stack' = IF e.returns THEN <<>> ELSE <<e.frame>>
             /\ result' = e.result
             /\ pc' = IF e.returns THEN "done" ELSE "solve"
    /\ UNCHANGED <<yielded, last, pair>>

CallInsertWords == CallSolver("insert_words", SolverInputs \cup TestInputs, FALSE)
CallInsertWordsRandomly == CallSolver("insert_words_randomly", RandomSolverInputs, TRUE)

\* One turn of the for loop of the innermost solver call: its generator
\* tries the next space.  If the word fits the generator yields temp_grid and
\* the loop body calls the solver on (temp_grid, words[1:]); a call that
\* returns a grid makes every enclosing call return that grid.
SolverTry ==
    /\ pc = "solve"
    /\ \E k \in Picks(Top) :
         \E a \in {Attempt(heap, Top, k)} :
             /\ last' = a.last
             /\ \/ /\ ~a.fits
                   /\ stack' = SetTop(stack, a.frame)
                   /\ result' = result
                   /\ pc' = pc
                   /\ heap' = Collect(a.heap, Roots(stack', yielded, result'))
                \/ /\ a.fits
                   /\ \E e \in {InsertWordsEnter(a.heap, a.frame.temp, Top.rest,
                                                 Top.randomly)} :
                        /\ stack' = IF e.returns THEN <<>>
                                    ELSE Append(SetTop(stack, a.frame), e.frame)
                        /\ result' = e.result
                        /\ pc' = IF e.returns THEN "done" ELSE pc
                        /\ heap' = Collect(e.heap, Roots(stack', yielded, result'))
    /\ UNCHANGED <<call, yielded, pair>>

\* The generator of the innermost solver call is exhausted: the call returns
\* None (line "return None"), and its caller's loop goes on; the outermost
\* call returns None to the caller of the solver.
SolverBacktrack ==
    /\ pc = "solve"
    /\ Top.spaces = <<>>
    /\ stack' = Pop(stack)
    /\ result' = IF Len(stack) = 1 THEN ReturnNone ELSE result
    /\ pc' = IF Len(stack) = 1 THEN "done" ELSE pc
    /\ heap' = Collect(heap, Roots(stack', yielded, result'))
    /\ UNCHANGED <<call, yielded, last, pair>>

\* Two placements made one after the other on the same grid object, in both
\* orders: insert first, then second, on the caller's grid, and second, then
\* first, on a deepcopy of it taken beforehand.  Each placement is a word,
\* an anchor that keeps the word inside the grid, and an orientation; the
\* second call of each order is made whatever the first one returned.
Anchors(grid, word) ==
    {<<x, y, TRUE>> : x \in Range(Width(grid) - Len(word) + 1), y \in Range(Height(grid))}
        \cup {<<x, y, FALSE>> : x \in Range(Width(grid)),
                                 y \in Range(Height(grid) - Len(word) + 1)}
WordPlacements(grid) ==
    UNION {{[word |-> w, space |-> a] : a \in Anchors(grid, w)} : w \in SolverWords}
InsertBoth(grid, p, q) ==
    LET one == InsertAt(grid, p.word, p.space)
        two == InsertAt(one.grid, q.word, q.space)
    IN  [rets |-> <<one.ret, two.ret>>, grid |-> two.grid]
CallInsertWordPair ==
    /\ pc = "idle"
    /\ \E grid \in SolverGrids :
         \E both \in {{p, q} : p \in WordPlacements(grid), q \in WordPlacements(grid)} :
            \E p \in both :
               \E q \in {r \in both : both = {p, r}} :
                  \E f \in {InsertBoth(grid, p, q)}, b \in {InsertBoth(grid, q, p)} :
                     /\ (\A r \in both : r = p) \/ p = CHOOSE r \in both : TRUE
                     /\ call' = [fn |-> "insert_word_pair", grid0 |-> grid,
                                 words |-> <<p.word, q.word>>, x |-> 0, y |-> 0]
                     /\ heap' = (1 :> f.grid) @@ (2 :> b.grid)
                     /\ pair' = [first |-> p, second |-> q, forward |-> f, backward |-> b]
    /\ pc' = "done"
    /\ result' = ReturnNone
    /\ UNCHANGED <<stack, yielded, last>>

Next ==
    \/ CallInsertWordHorizontally
    \/ CallInsertWordVertically
    \/ CallInsertWordPair
    \/ CallIterateWordSpaces
    \/ IterateWordSpacesNext
    \/ IterateWordSpacesEnd
    \/ CallIterateWordSpacesRandomly
    \/ IterateWordSpacesRandomlyNext
    \/ IterateWordSpacesRandomlyEnd
    \/ CallInsertWords
    \/ CallInsertWordsRandomly
    \/ SolverTry
    \/ SolverBacktrack

Spec == Init /\ [][Next]_vars

\* ================================================================== claims
\* Vocabulary of the claims: cells are 0-based pairs <<x, y>>.
CellsOf(grid) == Range(Width(grid)) \X Range(Height(grid))
At(grid, cell) == grid[cell[2] + 1][cell[1] + 1]
\* The cell the i-th character (0-based) of a placement goes to.
FootCell(x, y, horizontal, i) == IF horizontal THEN <<x + i, y>> ELSE <<x, y + i>>
Footprint(word, x, y, horizontal) ==
    {FootCell(x, y, horizontal, i) : i \in Range(Len(word))}
\* The footprint of a non-empty word lies inside the grid: its first and
\* its last cell do.
InBounds(grid, word, x, y, horizontal) ==
    LET end == FootCell(x, y, horizontal, Len(word) - 1)
    IN  /\ 0 <= x /\ 0 <= y
        /\ end[1] < Width(grid) /\ end[2] < Height(grid)
\* Some footprint cell holds a character other than the word's.
Conflicts(grid, word, x, y, horizontal) ==
    \E i \in Range(Len(word)) :
        LET c == At(grid, FootCell(x, y, horizontal, i))
        IN  c # None /\ c # word[i + 1]
\* after is before with the word written over the footprint and nothing else
\* changed.
Placed(before, after, word, x, y, horizontal) ==
    /\ Height(after) = Height(before)
    /\ Width(after) = Width(before)
    /\ \A r \in 1..Height(after) : Len(after[r]) = Width(before)
    /\ \A i \in Range(Len(word)) : At(after, FootCell(x, y, horizontal, i)) = word[i + 1]
    /\ \A cell \in CellsOf(before) \ Footprint(word, x, y, horizontal) :
          At(after, cell) = At(before, cell)
LastHorizontal == last.fn = "insert_word_horizontally"

\* C1: whenever a placement primitive was called (directly or by a generator)
\* with an in-bounds footprint of which some cell holds a character other
\* than the word's at that position, it returned False and the grid object
\* holds exactly what it held before the call.
C1_ConflictLeavesGridUnchanged ==
    (last.fn # "none" /\ Conflicts(last.pre, last.word, last.x, last.y, LastHorizontal))
        => (last.ret = FALSE /\ last.post = last.pre)

\* C1 witness: a horizontal call whose first footprint cell is empty and
\* whose second cell conflicts was rejected, on a grid with another row.
C1_Witness ==
    /\ last.fn = "insert_word_horizontally"
    /\ Len(last.word) = 2
    /\ Height(last.pre) = 2
    /\ At(last.pre, <<last.x, last.y>>) = None
    /\ At(last.pre, <<last.x + 1, last.y>>) \notin {None, last.word[2]}
    /\ last.ret = FALSE

\* C2: whenever a placement primitive was called with an in-bounds footprint:
\* if every footprint cell was empty or equal to the word's character, it
\* returned True; if it returned True the grid is the former grid with the
\* word over the footprint and every other cell as before; if it returned
\* False the grid is unchanged.
C2_FitWritesExactlyFootprint ==
    last.fn # "none" =>
        /\ ~Conflicts(last.pre, last.word, last.x, last.y, LastHorizontal) => last.ret = TRUE
        /\ last.ret = TRUE =>
              Placed(last.pre, last.post, last.word, last.x, last.y, LastHorizontal)
        /\ last.ret = FALSE => last.post = last.pre

\* C2 witness: a vertical call that crossed an earlier letter (one footprint
\* cell already held the word's character, another was empty) returned True.
C2_Witness ==
    /\ last.fn = "insert_word_vertically"
    /\ last.ret = TRUE
    /\ \E i, j \in Range(Len(last.word)) :
          /\ At(last.pre, <<last.x, last.y + i>>) = last.word[i + 1]
          /\ At(last.pre, <<last.x, last.y + j>>) = None
    /\ \E cell \in CellsOf(last.pre) \ Footprint(last.word, last.x, last.y, FALSE) :
          At(last.pre, cell) # None

\* All in-bounds placements <<x, y, horizontal>> of a word in a grid.
Placements(grid, word) ==
    {p \in Range(Width(grid)) \X Range(Height(grid)) \X BOOLEAN :
        InBounds(grid, word, p[1], p[2], p[3])}
\* The word reads in the grid at placement p.
Reads(grid, word, p) ==
    \A i \in Range(Len(word)) : At(grid, FootCell(p[1], p[2], p[3], i)) = word[i + 1]
\* The character placement p of word puts on cell (the cell is in its footprint).
CharOn(word, p, cell) ==
    word[(IF p[3] THEN cell[1] - p[1] ELSE cell[2] - p[2]) + 1]

\* There is one placement per word of ws at which the word reads in grid,
\* such that every non-empty cell of grid is in covered or in the footprint
\* of one of these placements.
RECURSIVE Explained(_, _, _)
Explained(grid, ws, covered) ==
    IF ws = <<>>
    THEN \A cell \in CellsOf(grid) : At(grid, cell) # None => cell \in covered
    ELSE \E p \in Placements(grid, Head(ws)) :
            /\ Reads(grid, Head(ws), p)
            /\ Explained(grid, Tail(ws),
                         covered \cup Footprint(Head(ws), p[1], p[2], p[3]))

SolverCall == call.fn \in {"insert_words", "insert_words_randomly"}
SolverDone == SolverCall /\ pc = "done"

\* C3: when a solver called on an all-empty grid returns a grid, that grid has
\* the input's width and height, every word reads in it at an in-bounds
\* placement, and every cell outside the footprints of these placements (one
\* per word) is empty.
C3_ResultHoldsExactlyTheWords ==
    (SolverDone /\ Preset(call.grid0) = 0 /\ result.tag = "grid") =>
        LET g == heap[result.ref]
        IN  /\ Height(g) = Height(call.grid0)
            /\ Width(g) = Width(call.grid0)
            /\ \A r \in 1..Height(g) : Len(g[r]) = Width(call.grid0)
            /\ Explained(g, call.words, {})

\* C3 witness: the randomized solver returned a grid for two words on an
\* empty grid, with some cell left empty and two words crossing.
C3_Witness ==
    /\ call.fn = "insert_words_randomly" /\ pc = "done"
    /\ Preset(call.grid0) = 0
    /\ Len(call.words) = 2
    /\ result.tag = "grid"
    /\ \E cell \in CellsOf(heap[result.ref]) : At(heap[result.ref], cell) = None
    /\ Preset(heap[result.ref]) < Len(call.words[1]) + Len(call.words[2])

\* Placement p of word n of ws agrees with the pre-set cells of grid and, on
\* every shared cell, with the placements chosen for the words before it.
Agrees(grid, ws, chosen, n, p) ==
    LET foot == Footprint(ws[n], p[1], p[2], p[3])
    IN  /\ \A cell \in foot : At(grid, cell) \in {None, CharOn(ws[n], p, cell)}
        /\ \A i \in 1..Len(chosen) :
              \A cell \in foot \cap Footprint(ws[i], chosen[i][1], chosen[i][2], chosen[i][3]) :
                 CharOn(ws[i], chosen[i], cell) = CharOn(ws[n], p, cell)
\* chosen, one in-bounds placement for each of the first words of ws, extends
\* to an assignment for all of ws in which all placements agree.
RECURSIVE Assignable(_, _, _)
Assignable(grid, ws, chosen) ==
    IF Len(chosen) = Len(ws)
    THEN TRUE
    ELSE \E p \in Placements(grid, ws[Len(chosen) + 1]) :
            /\ Agrees(grid, ws, chosen, Len(chosen) + 1, p)
            /\ Assignable(grid, ws, Append(chosen, p))
Solvable(grid, ws) == Assignable(grid, ws, <<>>)

\* C4: a solver returns None exactly when no assignment of one in-bounds
\* placement to each word exists in which the words agree on shared cells and
\* with the pre-set cells of the input grid; otherwise it returns a grid.
C4_SearchIsComplete ==
    SolverDone =>
        /\ result.tag \in {"None", "grid"}
        /\ result.tag = "None" <=> ~Solvable(call.grid0, call.words)

\* C4 witness: a solver returned None for two words each of which can be
\* placed alone in the input grid.
C4_Witness ==
    /\ SolverDone
    /\ result.tag = "None"
    /\ Len(call.words) = 2
    /\ Solvable(call.grid0, <<call.words[1]>>)
    /\ Solvable(call.grid0, <<call.words[2]>>)

\* C5: a solver called with an empty word list returns the very grid object
\* it was given, with its contents unchanged, and None is returned only for
\* a non-empty word list.
C5_EmptyListReturnsTheGrid ==
    SolverDone =>
        /\ call.words = <<>> => (result = ReturnGrid(1) /\ heap[1] = call.grid0)
        /\ result.tag = "None" => call.words # <<>>

\* C5 witness: insert_words_randomly returned for the grid [] and no words.
C5_Witness ==
    /\ SolverDone
    /\ call.fn = "insert_words_randomly"
    /\ call.words = <<>>
    /\ call.grid0 = <<>>
    /\ result.tag = "grid"

GeneratorCall == call.fn = "iterate_word_spaces"
TheWord == call.words[1]
\* The in-bounds placements at which the primitive accepts the word.
Legal(grid, word) ==
    {p \in Placements(grid, word) : ~Conflicts(grid, word, p[1], p[2], p[3])}
\* grid with the word written at placement p.
Overlay(grid, word, p) ==
    [r \in 1..Height(grid) |->
        [c \in 1..Width(grid) |->
            IF <<c - 1, r - 1>> \in Footprint(word, p[1], p[2], p[3])
            THEN CharOn(word, p, <<c - 1, r - 1>>) ELSE grid[r][c]]]
\* The order of the claim: horizontal placements before vertical ones; the
\* horizontal ones by x then y, the vertical ones by y then x.
Before(p, q) ==
    \/ p[3] /\ ~q[3]
    \/ p[3] /\ q[3] /\ (p[1] < q[1] \/ (p[1] = q[1] /\ p[2] < q[2]))
    \/ ~p[3] /\ ~q[3] /\ (p[2] < q[2] \/ (p[2] = q[2] /\ p[1] < q[1]))
SpacesOf(ys) == {ys[i].space : i \in 1..Len(ys)}
ValuesOf(ys) == {ys[i].val : i \in 1..Len(ys)}

\* C6: the list of the grids iterate_word_spaces has yielded when it is
\* exhausted holds, in the order of the claim and one per placement, the base
\* grid with the word written at each legal placement, and nothing else.
C6_OrderedGeneratorYieldsLegalPlacementsInOrder ==
    (GeneratorCall /\ result.tag = "list") =>
        LET ys == yielded.ordered
        IN  /\ \A i \in 1..Len(ys) :
                  /\ ys[i].val = Overlay(call.grid0, TheWord, ys[i].space)
                  /\ Placed(call.grid0, ys[i].val, TheWord,
                            ys[i].space[1], ys[i].space[2], ys[i].space[3])
            /\ \A i \in 1..(Len(ys) - 1) : Before(ys[i].space, ys[i + 1].space)
            /\ SpacesOf(ys) = Legal(call.grid0, TheWord)

\* C6 witness: the exhausted ordered generator has yielded horizontal and
\* vertical placements in two columns and has skipped an in-bounds placement.
C6_Witness ==
    /\ GeneratorCall
    /\ result.tag = "list"
    /\ \E p, q, r \in SpacesOf(yielded.ordered) : p[3] /\ q[3] /\ p[1] # q[1] /\ ~r[3]
    /\ Legal(call.grid0, TheWord) # Placements(call.grid0, TheWord)

\* C7: the grids iterate_word_spaces_randomly yields are among those
\* iterate_word_spaces yields for the same grid and word, and once it is
\* exhausted the two sets of grids are equal and so are the two counts.
C7_RandomizedGeneratorYieldsTheSameGrids ==
    GeneratorCall =>
        /\ pc = "randomly" => ValuesOf(yielded.randomly) \subseteq ValuesOf(yielded.ordered)
        /\ result.tag = "lists" =>
              /\ ValuesOf(yielded.randomly) = ValuesOf(yielded.ordered)
              /\ Len(yielded.randomly) = Len(yielded.ordered)

\* C7 witness: both generators are exhausted, they yielded the same grids in
\* different orders, and some in-bounds placement did not fit.
C7_Witness ==
    /\ GeneratorCall
    /\ result.tag = "lists"
    /\ Len(yielded.randomly) >= 2
    /\ \E i \in 1..Len(yielded.randomly) : yielded.randomly[i].val # yielded.ordered[i].val
    /\ Legal(call.grid0, TheWord) # Placements(call.grid0, TheWord)

\* Word i of the call is longer than both dimensions of the call's grid.
TooLong(word) == Len(word) > Width(call.grid0) /\ Len(word) > Height(call.grid0)
AllYielded == yielded.ordered \o yielded.randomly

\* C8: a generator only ever holds and tries spaces whose footprint lies in
\* its grid (no horizontal one when the word is longer than the width, no
\* vertical one when it is longer than the height); it yields nothing when
\* the width or the height is 0 or the word is longer than both; a solver
\* whose word list has a word longer than both dimensions returns None.
C8_DegenerateSizesExhaust ==
    /\ \A i \in 1..Len(stack) : \A k \in 1..Len(stack[i].spaces) :
          LET p == stack[i].spaces[k]
          IN  /\ InBounds(stack[i].base0, stack[i].word, p[1], p[2], p[3])
              /\ p[3] => Len(stack[i].word) <= Width(stack[i].base0)
              /\ ~p[3] => Len(stack[i].word) <= Height(stack[i].base0)
    /\ (GeneratorCall \/ SolverCall) /\ last.fn # "none" =>
          InBounds(last.pre, last.word, last.x, last.y, LastHorizontal)
    /\ \A i \in 1..Len(AllYielded) :
          /\ AllYielded[i].space[3] => Len(TheWord) <= Width(call.grid0)
          /\ ~AllYielded[i].space[3] => Len(TheWord) <= Height(call.grid0)
    /\ (GeneratorCall /\ (Width(call.grid0) = 0 \/ Height(call.grid0) = 0 \/ TooLong(TheWord)))
          => AllYielded = <<>>
    /\ (SolverDone /\ \E i \in 1..Len(call.words) : TooLong(call.words[i]))
          => result.tag = "None"

\* C8 witness: insert_words returned None for a list whose first word was
\* placed and whose second word is longer than both dimensions of the grid.
C8_Witness ==
    /\ SolverDone
    /\ call.fn = "insert_words"
    /\ Width(call.grid0) >= 1 /\ Height(call.grid0) >= 1
    /\ Len(call.words) = 2
    /\ ~TooLong(call.words[1]) /\ TooLong(call.words[2])
    /\ last.ret = TRUE
    /\ result.tag = "None"

\* The call insert_words(create_empty_grid(4, 4), ["cat", "cup"]).
CatCupCall ==
    /\ call.fn = "insert_words"
    /\ call.grid0 = create_empty_grid(TestSize, TestSize)
    /\ call.words = <<cat, cup>>

\* C9 as stated: insert_words on an empty 4 x 4 grid with "cat" and "cup"
\* returns a grid in which both words read and their 'c' is one shared cell.
C9_Original_SharedC ==
    (CatCupCall /\ pc = "done") =>
        /\ result.tag = "grid"
        /\ \E p \in Placements(heap[result.ref], cat), q \in Placements(heap[result.ref], cup) :
              /\ Reads(heap[result.ref], cat, p)
              /\ Reads(heap[result.ref], cup, q)
              /\ <<p[1], p[2]>> = <<q[1], q[2]>>

\* C9 as amended: the call returns the first placement found, "cat" in row 0
\* and "cup" in row 1 from column 0, which share no cell; the crossing at
\* the 'c' is accepted all the same: on the grid the search holds after
\* placing "cat", insert_word_vertically places "cup" down from the 'c'.
C9_BothPlacedCrossingAcceptedNotSought ==
    CatCupCall =>
        /\ pc = "done" =>
              /\ result.tag = "grid"
              /\ heap[result.ref] =
                    Overlay(Overlay(call.grid0, cat, <<0, 0, TRUE>>), cup, <<0, 1, TRUE>>)
        /\ Len(stack) = 2 =>
              /\ Reads(heap[Top.base], cat, <<0, 0, TRUE>>)
              /\ insert_word_vertically(heap[Top.base], cup, 0, 0).ret = TRUE
              /\ Reads(insert_word_vertically(heap[Top.base], cup, 0, 0).grid,
                       cat, <<0, 0, TRUE>>)

\* C9 witness: the call on "cat" and "cup" has returned a grid.
C9_Witness ==
    /\ CatCupCall
    /\ pc = "done"
    /\ result.tag = "grid"
    /\ last.fn = "insert_word_horizontally"

\* C10: while and after a generator or a solver runs, the caller's grid
\* holds what it held at the call, the grid every generator was handed holds
\* what it held when it was handed over and is not the object the generator
\* writes to, and every grid that was yielded holds what it held when it was
\* yielded and is neither the caller's grid nor another yielded grid.
C10_NoHandedGridIsMutated ==
    (GeneratorCall \/ SolverCall) =>
        /\ heap[1] = call.grid0
        /\ \A i \in 1..Len(stack) :
              /\ heap[stack[i].base] = stack[i].base0
              /\ stack[i].temp # stack[i].base
              /\ i > 1 => stack[i].base = stack[i - 1].temp
        /\ \A i \in 1..Len(AllYielded) :
              /\ heap[AllYielded[i].ref] = AllYielded[i].val
              /\ AllYielded[i].ref # 1
              /\ \A j \in 1..Len(AllYielded) : i # j => AllYielded[i].ref # AllYielded[j].ref

\* C10 witness: the randomized generator is part-way over a grid with a
\* pre-set cell, after the ordered generator yielded at least two grids.
C10_Witness ==
    /\ GeneratorCall
    /\ pc = "randomly"
    /\ Preset(call.grid0) >= 1
    /\ Len(yielded.ordered) >= 2
    /\ Len(yielded.randomly) >= 1
    /\ Top.spaces # <<>>

\* ------------------------------------------------------------------- C11
PairCall == call.fn = "insert_word_pair" /\ pc = "done"
FootprintOf(p) == Footprint(p.word, p.space[1], p.space[2], p.space[3])
\* Neither placement, made alone on the grid, meets a different character.
BothAgreeWith(grid, p, q) ==
    /\ ~Conflicts(grid, p.word, p.space[1], p.space[2], p.space[3])
    /\ ~Conflicts(grid, q.word, q.space[1], q.space[2], q.space[3])
\* On every cell the two footprints share, the two words put the same character.
Compatible(p, q) ==
    \A cell \in FootprintOf(p) \cap FootprintOf(q) :
        CharOn(p.word, p.space, cell) = CharOn(q.word, q.space, cell)
\* Both calls of one order returned True.
BothSucceeded(outcome) == outcome.rets[1] /\ outcome.rets[2]

\* C11: for every grid and every two in-bounds placements, placing the first
\* then the second returns True twice exactly when placing the second then the
\* first returns True twice; when both succeed the two resulting grids are
\* equal; and both succeed exactly when each placement agrees with the grid
\* as it was and the two words put equal characters on every cell they share,
\* whichever was placed first.
C11_PlacementOrderIsSymmetric ==
    PairCall =>
        /\ BothSucceeded(pair.forward) <=> BothSucceeded(pair.backward)
        /\ BothSucceeded(pair.forward) => pair.forward.grid = pair.backward.grid
        /\ BothSucceeded(pair.forward) <=>
              (BothAgreeWith(call.grid0, pair.first, pair.second)
                  /\ Compatible(pair.first, pair.second))
        /\ heap[1] = pair.forward.grid /\ heap[2] = pair.backward.grid
\* A horizontal and a vertical two-letter word crossing at a cell were placed
\* in both orders on a grid that already held a character, and both orders
\* succeeded.
C11_Witness ==
    /\ PairCall
    /\ BothSucceeded(pair.forward) /\ BothSucceeded(pair.backward)
    /\ pair.first.space[3] # pair.second.space[3]
    /\ Len(pair.first.word) = 2 /\ Len(pair.second.word) = 2
    /\ FootprintOf(pair.first) \cap FootprintOf(pair.second) # {}
    /\ \E cell \in CellsOf(call.grid0) : At(call.grid0, cell) # None

====
